---------------------------- MODULE Spec2Model ----------------------------
(***************************************************************************)
(* A model of vtkxml.VtuWriter (src/vtkxml/vtkxml.py): the writer's state  *)
(* (fnames, bit64), type inference (guess_scalar_type, guess_vector_type), *)
(* the construction of the grid document (write_data_file) and of the      *)
(* index document (write_pvd_file).                                        *)
(*                                                                         *)
(* A Python value is a record [kind, v]: kind is the value's run-time      *)
(* type ("int", "float", "bool", "str"), v its numeric value.  A call that *)
(* raises is a record whose exc field names the exception; exc = "none"    *)
(* is a normal return.  A dict is the sequence of its items in iteration   *)
(* order, each [name, data], with distinct names.  The optional result of  *)
(* types.get(name, None) is <<>> for None and <<t>> for the string t.      *)
(***************************************************************************)
EXTENDS Integers, Sequences, FiniteSets, TLC

VARIABLES
    bit64,      \* self.bit64
    fnames,     \* self.fnames
    okPaths,    \* history: the fn of every write_data_file call that returned
    last,       \* history: the last call, its arguments, outcome, fnames before
    doc,        \* the document the last call serialised (NoDoc if it raised)
    arg,        \* the argument of the inference function under test
    ret         \* its outcome (Pending before the call)

vars == <<bit64, fnames, okPaths, last, doc, arg, ret>>

----------------------------------------------------------------------------
(* Bounds *)

MaxLen == 3         \* longest series handed to guess_scalar_type
MaxCompLen == 2     \* longest component handed to guess_vector_type
MaxComp == 2        \* most components handed to guess_vector_type
MaxWrites == 3      \* most paths a session records

----------------------------------------------------------------------------
(* Values, returns and exceptions *)

PyInt(n) == [kind |-> "int", v |-> n]
PyFloat(n) == [kind |-> "float", v |-> n]
PyBool(n) == [kind |-> "bool", v |-> n]
PyStr == [kind |-> "str", v |-> 0]

Values ==
    {PyInt(0), PyInt(1), PyInt(-1), PyFloat(1), PyFloat(-1), PyBool(1), PyStr}

Ret(x) == [exc |-> "none", val |-> x]
Raise(e) == [exc |-> e, val |-> ""]
Pending == [exc |-> "pending", val |-> ""]

SeqsUpTo(S, n) == UNION {[1..k -> S] : k \in 0..n}

Min(S) == CHOOSE m \in S : \A x \in S : m <= x

----------------------------------------------------------------------------
(* Type inference: lines 63-137 *)

WidthName(b64, stem) == IF b64 THEN stem \o "64" ELSE stem \o "32"

\* guess_scalar_type with the sign test written x > 0
guess_scalar_type_strict(b64, data) ==
    IF \A i \in DOMAIN data : data[i].kind = "int"
    THEN IF \A i \in DOMAIN data : data[i].v > 0
         THEN Ret(WidthName(b64, "UInt"))
         ELSE Ret(WidthName(b64, "Int"))
    ELSE IF \A i \in DOMAIN data : data[i].kind \in {"float", "int"}
         THEN Ret(WidthName(b64, "Float"))
         ELSE Raise("ValueError")

\* guess_scalar_type returning the float name without its width
guess_scalar_type_nowidth(b64, data) ==
    IF \A i \in DOMAIN data : data[i].kind = "int"
    THEN IF \A i \in DOMAIN data : data[i].v >= 0
         THEN Ret(WidthName(b64, "UInt"))
         ELSE Ret(WidthName(b64, "Int"))
    ELSE IF \A i \in DOMAIN data : data[i].kind \in {"float", "int"}
         THEN Ret("Float")
         ELSE Raise("ValueError")

guess_scalar_type(b64, data) ==
    IF \A i \in DOMAIN data : data[i].kind = "int"
    THEN IF \A i \in DOMAIN data : data[i].v >= 0
         THEN Ret(WidthName(b64, "UInt"))
         ELSE Ret(WidthName(b64, "Int"))
    ELSE IF \A i \in DOMAIN data : data[i].kind \in {"float", "int"}
         THEN Ret(WidthName(b64, "Float"))
         ELSE Raise("ValueError")

guess_vector_type(b64, data) ==
    LET types == [i \in DOMAIN data |-> guess_scalar_type(b64, data[i])]
    IN  IF \E i \in DOMAIN types : types[i].exc # "none"
        THEN Raise(types[Min({i \in DOMAIN types : types[i].exc # "none"})].exc)
        ELSE IF \A i \in DOMAIN types : types[i].val \in {"UInt32", "UInt64"}
        THEN IF Len(data) = 0 THEN Raise("IndexError") ELSE types[1]
        ELSE IF \A i \in DOMAIN types :
                   types[i].val \in {"Int32", "Int64", "UInt32", "UInt64"}
        THEN Ret(WidthName(b64, "Int"))
        ELSE Ret(WidthName(b64, "Float"))


----------------------------------------------------------------------------
(* Python helpers *)

Digit(d) ==
    CASE d = 0 -> "0" [] d = 1 -> "1" [] d = 2 -> "2" [] d = 3 -> "3"
      [] d = 4 -> "4" [] d = 5 -> "5" [] d = 6 -> "6" [] d = 7 -> "7"
      [] d = 8 -> "8" [] d = 9 -> "9"

RECURSIVE StrNat(_)
\* str(n) of a non-negative int
StrNat(n) == IF n < 10 THEN Digit(n) ELSE StrNat(n \div 10) \o Digit(n % 10)

\* x or ...: None and the empty string are false
Truthy(opt) == opt # <<>> /\ opt[1] # ""

\* d.get(k, None) of a mapping from names to strings
Get(d, k) == IF k \in DOMAIN d THEN <<d[k]>> ELSE <<>>

\* the keys of a dict, in iteration order
Keys(d) == [i \in DOMAIN d |-> d[i].name]

HasKey(d, k) == \E i \in DOMAIN d : d[i].name = k

\* d[k] of a dict that has the key
Item(d, k) == d[CHOOSE i \in DOMAIN d : d[i].name = k].data

\* the exception of the first step that raised, "none" if none did
FirstExc(steps) ==
    IF \A i \in DOMAIN steps : steps[i].exc = "none"
    THEN "none"
    ELSE steps[Min({i \in DOMAIN steps : steps[i].exc # "none"})].exc

----------------------------------------------------------------------------
(* Document construction: lines 40-61, 139-171 *)

\* vectors_to_string(*vectors): zip stops at the shortest argument; the text
\* is kept as its lines, each the values that are joined by ' '
vectors_to_string(vectors) ==
    IF Len(vectors) = 0
    THEN <<>>
    ELSE [i \in 1..Min({Len(vectors[j]) : j \in DOMAIN vectors}) |->
            [j \in DOMAIN vectors |-> vectors[j][i]]]

NoEl == [Name |-> ""]

\* generate_scalar running inference before it looks at the override
generate_scalar_eager(b64, name, data, datatype) ==
    LET g == guess_scalar_type(b64, data)
        t == IF g.exc # "none" THEN g
             ELSE IF Truthy(datatype) THEN Ret(datatype[1]) ELSE g
    IN  IF t.exc # "none"
        THEN [exc |-> t.exc, el |-> NoEl]
        ELSE [exc |-> "none",
              el |-> [Name |-> name, type |-> t.val, format |-> "ascii",
                      text |-> vectors_to_string(<<data>>)]]

generate_scalar(b64, name, data, datatype) ==
    LET t == IF Truthy(datatype)
             THEN Ret(datatype[1])
             ELSE guess_scalar_type(b64, data)
    IN  IF t.exc # "none"
        THEN [exc |-> t.exc, el |-> NoEl]
        ELSE [exc |-> "none",
              el |-> [Name |-> name, type |-> t.val, format |-> "ascii",
                      text |-> vectors_to_string(<<data>>)]]

generate_vector(b64, name, data, datatype) ==
    LET ncomp == Len(data)
        t == IF Truthy(datatype)
             THEN Ret(datatype[1])
             ELSE guess_vector_type(b64, data)
    IN  IF t.exc # "none"
        THEN [exc |-> t.exc, el |-> NoEl]
        ELSE [exc |-> "none",
              el |-> [Name |-> name, type |-> t.val, format |-> "ascii",
                      NumberOfComponents |-> StrNat(ncomp),
                      text |-> vectors_to_string(data)]]

----------------------------------------------------------------------------
(* write_data_file: lines 173-277 *)

NoDoc == [tag |-> "none"]

\* line 225: npts = len(vectors[pname][0])
npts_of(vectors, pname) ==
    IF ~HasKey(vectors, pname) THEN Raise("KeyError")
    ELSE IF Len(Item(vectors, pname)) = 0 THEN Raise("IndexError")
    ELSE Ret(Len(Item(vectors, pname)[1]))

\* lines 249-253 without the test on pname
point_vectors_all(vectors, pname) == vectors

\* lines 249-251: the vector series that go to PointData
point_vectors(vectors, pname) ==
    SelectSeq(vectors, LAMBDA f : f.name # pname)

\* lines 246-256: the children of PointData, in the order they are appended
point_data(vecs, scls) == vecs \o scls

\* lines 225-269: the document, or the exception that ends the call
grid_document(b64, scalars, vectors, types, pname) ==
    LET npts == npts_of(vectors, pname)
        pos == generate_vector(b64, pname, Item(vectors, pname),
                               Get(types, pname))
        others == point_vectors(vectors, pname)
        vecs == [i \in DOMAIN others |->
                    generate_vector(b64, others[i].name, others[i].data,
                                    Get(types, others[i].name))]
        scls == [i \in DOMAIN scalars |->
                    generate_scalar(b64, scalars[i].name, scalars[i].data,
                                    Get(types, scalars[i].name))]
        steps == point_data(vecs, scls)
    IN  IF npts.exc # "none" THEN [exc |-> npts.exc, doc |-> NoDoc]
        ELSE IF pos.exc # "none" THEN [exc |-> pos.exc, doc |-> NoDoc]
        ELSE IF FirstExc(steps) # "none"
        THEN [exc |-> FirstExc(steps), doc |-> NoDoc]
        ELSE [exc |-> "none",
              doc |-> [tag |-> "VTKFile", type |-> "UnstructuredGrid",
                       version |-> "0.1", byte_order |-> "LittleEndian",
                       NumberOfPoints |-> StrNat(npts.val),
                       NumberOfCells |-> "0",
                       Points |-> <<pos.el>>,
                       PointData |-> [i \in DOMAIN steps |-> steps[i].el],
                       Cells |-> <<[type |-> "Int32",
                                    Name |-> "connectivity",
                                    format |-> "ascii", text |-> "0"]>>,
                       CellData |-> <<>>]]

\* line 277 placed before the with block of lines 271-276
record_path_early(names, fn, built, io) ==
    IF built = "none" THEN Append(names, fn) ELSE names

\* line 277 placed first in the function
record_path_first(names, fn, built, io) == Append(names, fn)

\* line 277: self.fnames.append(fn), reached when nothing before it raised
record_path(names, fn, built, io) ==
    IF built = "none" /\ io = "none" THEN Append(names, fn) ELSE names

----------------------------------------------------------------------------
(* write_pvd_file: lines 279-309 *)

\* lines 297-303 with enumerate counting from 1
data_sets_from_one(names) ==
    [k \in DOMAIN names |->
        [timestep |-> StrNat(k), group |-> "", part |-> "0",
         file |-> names[k]]]

\* lines 297-303: one DataSet per recorded path, enumerate counts from 0
data_sets(names) ==
    [k \in DOMAIN names |->
        [timestep |-> StrNat(k - 1), group |-> "", part |-> "0",
         file |-> names[k]]]

\* lines 286-303
pvd_document(names) ==
    [tag |-> "VTKFile", type |-> "Collection", version |-> "0.1",
     byte_order |-> "LittleEndian", Collection |-> data_sets(names)]

----------------------------------------------------------------------------
(* The calls *)

NoCall == [op |-> "__init__"]

\* what open(fn, 'w') and writexml do: return, or raise IOError
IoOutcomes == {"none", "IOError"}

\* write_data_file(fn, scalars, vectors, types, pname); io is the outcome of
\* lines 271-276 when they are reached
WriteDataFile(fn, scalars, vectors, types, pname, io) ==
    LET built == grid_document(bit64, scalars, vectors, types, pname)
        exc == IF built.exc # "none" THEN built.exc ELSE io
    IN  /\ fnames' = record_path(fnames, fn, built.exc, io)
        /\ okPaths' = IF exc = "none" THEN Append(okPaths, fn) ELSE okPaths
        /\ doc' = IF exc = "none" THEN built.doc ELSE NoDoc
        /\ last' = [op |-> "write_data_file", fn |-> fn, scalars |-> scalars,
                    vectors |-> vectors, types |-> types, pname |-> pname,
                    io |-> io, exc |-> exc, pre |-> fnames]
        /\ UNCHANGED <<bit64, arg, ret>>

\* write_pvd_file(fn); io is the outcome of lines 304-309
WritePvdFile(fn, io) ==
    /\ doc' = IF io = "none" THEN pvd_document(fnames) ELSE NoDoc
    /\ last' = [op |-> "write_pvd_file", fn |-> fn, exc |-> io,
                pre |-> fnames]
    /\ UNCHANGED <<bit64, fnames, okPaths, arg, ret>>

\* guess_scalar_type(arg) on a writer of either width
GuessScalar ==
    /\ ret = Pending
    /\ ret' = guess_scalar_type(bit64, arg)
    /\ UNCHANGED <<bit64, fnames, okPaths, last, doc, arg>>

\* guess_vector_type(arg) on a writer of either width
GuessVector ==
    /\ ret = Pending
    /\ ret' = guess_vector_type(bit64, arg)
    /\ UNCHANGED <<bit64, fnames, okPaths, last, doc, arg>>

----------------------------------------------------------------------------
(* Inputs *)

i0 == PyInt(0)
i1 == PyInt(1)
im == PyInt(-1)
f1 == PyFloat(1)

V_uint == << <<i0, i1>>, <<i1, i1>> >>
V_mixed == << <<im, i1>>, <<f1, i1>>, <<i0, i0>> >>
V_int == << <<im, i0>> >>
V_bad == << <<PyStr, i1>>, <<i1, i1>> >>
V_empty == << >>
V_uneq == << <<i1, i1>>, <<i1>> >>

S_uint == <<i0, i1>>
S_int == <<im, i1>>
S_float == <<f1, i1>>
S_bad == <<i1, PyStr>>
S_short == <<i1>>

Paths == {"a.vtu", "b.vtu"}

\* every dict whose keys are among the names of choices (a function from a
\* name to the data it may carry), in every iteration order
Dicts(choices) ==
    LET N == DOMAIN choices
        items == {[name |-> n, data |-> x] : n \in N, x \in UNION {choices[m] : m \in N}}
    IN  {d \in SeqsUpTo(items, Cardinality(N)) :
            /\ \A i \in DOMAIN d : d[i].data \in choices[d[i].name]
            /\ \A i, j \in DOMAIN d : i # j => d[i].name # d[j].name}

\* the types mappings with at most one entry
Overrides(names, values) ==
    {<<>>} \cup {[x \in {n} |-> t] : n \in names, t \in values}

SessionVectors ==
    {<<>>, <<[name |-> "positions", data |-> V_uint]>>,
     <<[name |-> "positions", data |-> V_empty]>>}
SessionScalars == {<<>>, <<[name |-> "m", data |-> S_bad]>>}
SessionTypes == Overrides({"m"}, {"Float32"})

DocVectors ==
    Dicts([n \in {"positions", "v", "w"} |->
             CASE n = "positions" -> {V_uint, V_bad, V_uneq, V_empty}
               [] n = "v" -> {V_mixed, V_bad, V_empty}
               [] n = "w" -> {V_int, V_uneq}])
DocScalars ==
    Dicts([n \in {"m", "positions"} |->
             CASE n = "m" -> {S_uint, S_bad, S_short}
               [] n = "positions" -> {S_float, S_int}])
DocTypes == Overrides({"positions", "v", "m", "zz"}, {"Float32", "Int8", ""})
DocPnames == {"positions", "v"}

----------------------------------------------------------------------------
(* Specifications *)

InitWriter ==
    /\ bit64 \in BOOLEAN
    /\ fnames = <<>>
    /\ okPaths = <<>>
    /\ last = NoCall
    /\ doc = NoDoc
    /\ arg = <<>>
    /\ ret = Ret("")

\* a session: calls on one writer, in any order
Init == InitWriter

Next ==
    \/ \E fn \in Paths, s \in SessionScalars, v \in SessionVectors,
          t \in SessionTypes, io \in IoOutcomes :
            /\ Len(fnames) < MaxWrites
            /\ WriteDataFile(fn, s, v, t, "positions", io)
    \/ \E fn \in Paths, io \in IoOutcomes : WritePvdFile(fn, io)

Spec == Init /\ [][Next]_vars

\* the first write_data_file call on a new writer, over its arguments
NextDoc ==
    /\ last = NoCall
    /\ \E s \in DocScalars, v \in DocVectors, t \in DocTypes,
          p \in DocPnames, io \in IoOutcomes :
            WriteDataFile("a.vtu", s, v, t, p, io)

SpecDoc == InitWriter /\ [][NextDoc]_vars

InitScalar ==
    /\ bit64 \in BOOLEAN
    /\ fnames = <<>>
    /\ okPaths = <<>>
    /\ last = NoCall
    /\ doc = NoDoc
    /\ arg \in SeqsUpTo(Values, MaxLen)
    /\ ret = Pending

SpecScalar == InitScalar /\ [][GuessScalar]_vars

InitVector ==
    /\ bit64 \in BOOLEAN
    /\ fnames = <<>>
    /\ okPaths = <<>>
    /\ last = NoCall
    /\ doc = NoDoc
    /\ arg \in SeqsUpTo(SeqsUpTo(Values, MaxCompLen), MaxComp)
    /\ ret = Pending

SpecVector == InitVector /\ [][GuessVector]_vars

----------------------------------------------------------------------------
(* Vocabulary of the properties *)

DataTypeNames == {"UInt32", "UInt64", "Int32", "Int64", "Float32", "Float64"}

Errors == {"KeyError", "IndexError", "ValueError", "IOError"}

\* the decimal numeral of n, for n < 10
Decimal(n) == <<"0", "1", "2", "3", "4", "5", "6", "7", "8", "9">>[n + 1]

RECURSIVE Flatten(_)
\* all values of all components, taken together
Flatten(comps) ==
    IF Len(comps) = 0 THEN <<>> ELSE Head(comps) \o Flatten(Tail(comps))

IntegerKind(x) == x.kind = "int"
FloatingKind(x) == x.kind = "float"

Wrote == last.op = "write_data_file" /\ last.exc = "none"
Failed == last.op = "write_data_file" /\ last.exc # "none"
WrotePvd == last.op = "write_pvd_file" /\ last.exc = "none"

\* the series has an override that is not empty
Overridden(n) == n \in DOMAIN last.types /\ last.types[n] # ""

\* the vector series of the last call other than its position field
OtherVectors == SelectSeq(last.vectors, LAMBDA f : f.name # last.pname)

IsVectorArray(el) == "NumberOfComponents" \in DOMAIN el

----------------------------------------------------------------------------
(* Properties of a session: under Spec *)

\* C1: fnames is exactly the paths of the write_data_file calls that returned,
\* in call order, one entry per call; a call changes fnames only by appending
\* its own path when it returns, and write_pvd_file never changes it.
C1_PathsAreSuccessfulWrites ==
    /\ fnames = okPaths
    /\ last.op = "write_pvd_file" => fnames = last.pre
    /\ Wrote => fnames = Append(last.pre, last.fn)
    /\ Failed => fnames = last.pre

\* C1 witness: the same path written twice is recorded twice, and a failing
\* call after that has left both entries.
C1_Witness ==
    /\ Failed
    /\ fnames = <<"a.vtu", "a.vtu">>

\* C2: a write_data_file call that fails (position field absent, inference
\* raising, destination not writable) raises to its caller and leaves fnames
\* as it was; a later write_pvd_file lists only the successful writes.
C2_FailedWriteLeavesPaths ==
    /\ Failed => last.exc \in Errors /\ fnames = last.pre
    /\ (last.op = "write_data_file" /\ ~HasKey(last.vectors, last.pname))
          => last.exc = "KeyError"
    /\ (last.op = "write_data_file" /\ last.io = "IOError") => Failed
    /\ (last.op = "write_data_file" /\ HasKey(last.vectors, last.pname)
          /\ Len(Item(last.vectors, last.pname)) > 0
          /\ \E i \in DOMAIN last.scalars :
                /\ ~Overridden(last.scalars[i].name)
                /\ \E j \in DOMAIN last.scalars[i].data :
                      ~IntegerKind(last.scalars[i].data[j])
                      /\ ~FloatingKind(last.scalars[i].data[j]))
          => last.exc = "ValueError"
    /\ WrotePvd => [k \in DOMAIN doc.Collection |-> doc.Collection[k].file]
                      = okPaths

\* C2 witness: after one successful write, a write whose destination cannot
\* be written has failed.
C2_Witness ==
    /\ Failed
    /\ last.exc = "IOError"
    /\ Len(last.pre) = 1

\* C3: every write_pvd_file call emits one DataSet per recorded path, in
\* recording order, the k-th (from 0) with timestep k, group "", part "0" and
\* file the k-th path; with no recorded path the Collection is empty.
C3_PvdListsRecordedPaths ==
    WrotePvd =>
        /\ doc.type = "Collection"
        /\ Len(doc.Collection) = Len(fnames)
        /\ \A k \in 1..Len(fnames) :
              /\ doc.Collection[k].timestep = Decimal(k - 1)
              /\ doc.Collection[k].group = ""
              /\ doc.Collection[k].part = "0"
              /\ doc.Collection[k].file = fnames[k]

\* C3 witness: an index written after writes to two different paths.
C3_Witness ==
    /\ WrotePvd
    /\ Len(doc.Collection) = 2
    /\ doc.Collection[1].file # doc.Collection[2].file

----------------------------------------------------------------------------
(* Properties of type inference: under SpecScalar and SpecVector *)

\* C5: guess_scalar_type classifies by value kind: unsigned when every value
\* is an int >= 0, signed when every value is an int and one is negative,
\* float when every value is an int or a float and one is a float, ValueError
\* when a value is neither; the width is the writer's.
C5_ScalarTypeByKind ==
    ret # Pending =>
        LET ints == \A i \in DOMAIN arg : IntegerKind(arg[i])
            nums == \A i \in DOMAIN arg :
                        IntegerKind(arg[i]) \/ FloatingKind(arg[i])
        IN  /\ (ints /\ \A i \in DOMAIN arg : arg[i].v >= 0)
                  => ret = Ret(IF bit64 THEN "UInt64" ELSE "UInt32")
            /\ (ints /\ \E i \in DOMAIN arg : arg[i].v < 0)
                  => ret = Ret(IF bit64 THEN "Int64" ELSE "Int32")
            /\ (nums /\ \E i \in DOMAIN arg : FloatingKind(arg[i]))
                  => ret = Ret(IF bit64 THEN "Float64" ELSE "Float32")
            /\ ~nums => ret.exc = "ValueError"

\* C5 witness: a series of an integral float, a zero and a negative int has
\* been classified on a 64 bit writer.
C5_Witness ==
    /\ ret = Ret("Float64")
    /\ arg = <<PyFloat(1), PyInt(0), PyInt(-1)>>

\* C6: guess_vector_type(components) returns what guess_scalar_type returns
\* for all values of all components taken together, and raises ValueError
\* exactly when a component holds a value that is neither int nor float.
C6_VectorTypeAsScalarType ==
    ret # Pending =>
        /\ ret = guess_scalar_type(bit64, Flatten(arg))
        /\ ret.exc # "none" <=>
              \E c \in DOMAIN arg : \E i \in DOMAIN arg[c] :
                  ~IntegerKind(arg[c][i]) /\ ~FloatingKind(arg[c][i])

\* The statement of C6 for the lists that hold a component.
VectorTypeAsScalarTypeNonEmpty ==
    (ret # Pending /\ Len(arg) > 0) =>
        /\ ret = guess_scalar_type(bit64, Flatten(arg))
        /\ ret.exc = "ValueError" <=>
              \E c \in DOMAIN arg : \E i \in DOMAIN arg[c] :
                  ~IntegerKind(arg[c][i]) /\ ~FloatingKind(arg[c][i])

----------------------------------------------------------------------------
(* Properties of the grid document: under SpecDoc *)

\* C4: write_data_file raises, and records no path, whenever the components
\* of a vector series differ in length or a series' length differs from the
\* point count taken from the position field.
C4_ShapeMismatchFails ==
    LET unequal == \E i \in DOMAIN last.vectors :
                      \E a, b \in DOMAIN last.vectors[i].data :
                          Len(last.vectors[i].data[a])
                              # Len(last.vectors[i].data[b])
        counted == HasKey(last.vectors, last.pname)
                      /\ Len(Item(last.vectors, last.pname)) > 0
        n == Len(Item(last.vectors, last.pname)[1])
        disagrees ==
            \/ \E i \in DOMAIN last.vectors :
                  \E a \in DOMAIN last.vectors[i].data :
                      Len(last.vectors[i].data[a]) # n
            \/ \E i \in DOMAIN last.scalars : Len(last.scalars[i].data) # n
    IN  (last.op = "write_data_file" /\ (unequal \/ (counted /\ disagrees)))
            => Failed /\ fnames = last.pre

\* C9: write_data_file raises whenever types has an entry for a name that is
\* a key of neither scalars nor vectors.
C9_UnknownOverrideFails ==
    (/\ last.op = "write_data_file"
     /\ \E n \in DOMAIN last.types :
            ~HasKey(last.scalars, n) /\ ~HasKey(last.vectors, n))
        => Failed

\* the DataArray elements of Points and PointData, in document order
SeriesArrays == doc.Points \o doc.PointData

\* C7 as stated: in every grid file written, whatever overrides were given,
\* the type of every DataArray is one of the six names.
C7_TypesInClosedSet ==
    Wrote => \A i \in DOMAIN (SeriesArrays \o doc.Cells) :
                (SeriesArrays \o doc.Cells)[i].type \in DataTypeNames

\* C7 amended: in every grid file written, the type of every DataArray is one
\* of the six names or the non-empty override given for that series; the
\* connectivity array's type is Int32.  With every override among the six
\* names, every type is.
C7_TypesInClosedSetOrOverride ==
    Wrote =>
        /\ \A i \in DOMAIN SeriesArrays :
              \/ SeriesArrays[i].type \in DataTypeNames
              \/ /\ Overridden(SeriesArrays[i].Name)
                 /\ SeriesArrays[i].type = last.types[SeriesArrays[i].Name]
        /\ \A i \in DOMAIN doc.Cells : doc.Cells[i].type = "Int32"
        /\ (\A n \in DOMAIN last.types : last.types[n] \in DataTypeNames)
              => \A i \in DOMAIN SeriesArrays :
                    SeriesArrays[i].type \in DataTypeNames

\* C7 witness: a file holding an array typed by an override outside the six
\* names and a float series typed by inference.
C7_Witness ==
    /\ Wrote
    /\ \E i \in DOMAIN SeriesArrays : SeriesArrays[i].type = "Int8"
    /\ \E i \in DOMAIN SeriesArrays :
          /\ ~Overridden(SeriesArrays[i].Name)
          /\ SeriesArrays[i].type \in {"Float32", "Float64"}

\* the series the arrays of SeriesArrays come from: the position field, the
\* other vectors, the scalars
Emitted ==
    <<[name |-> last.pname, vector |-> TRUE,
       data |-> Item(last.vectors, last.pname)]>>
    \o [i \in DOMAIN OtherVectors |->
          [name |-> OtherVectors[i].name, vector |-> TRUE,
           data |-> OtherVectors[i].data]]
    \o [i \in DOMAIN last.scalars |->
          [name |-> last.scalars[i].name, vector |-> FALSE,
           data |-> last.scalars[i].data]]

\* what inference gives for a series
Inferred(s) ==
    IF s.vector THEN guess_vector_type(bit64, s.data)
    ELSE guess_scalar_type(bit64, s.data)

\* C8 as stated: a series with an entry in types is typed by it and inference
\* is not run for it; a series without an entry is typed by inference.
C8_OverrideTakesPrecedence ==
    Wrote => \A i \in DOMAIN SeriesArrays :
                IF SeriesArrays[i].Name \in DOMAIN last.types
                THEN SeriesArrays[i].type = last.types[SeriesArrays[i].Name]
                ELSE Ret(SeriesArrays[i].type) = Inferred(Emitted[i])

\* C8 amended: a series with a non-empty entry in types is typed by it and
\* inference is not run for it, so the call fails only if the position field
\* is absent or has no component, if inference raises for a series with no
\* entry or an empty one, or if the file cannot be written; every series with
\* no entry, or an empty one, is typed by inference.
C8_NonEmptyOverrideTakesPrecedence ==
    last.op = "write_data_file" =>
        LET located == HasKey(last.vectors, last.pname)
                          /\ Len(Item(last.vectors, last.pname)) > 0
        IN  /\ Wrote <=>
                  /\ located
                  /\ \A i \in DOMAIN Emitted :
                        \/ Overridden(Emitted[i].name)
                        \/ Inferred(Emitted[i]).exc = "none"
                  /\ last.io = "none"
            /\ Wrote =>
                  /\ Len(SeriesArrays) = Len(Emitted)
                  /\ \A i \in DOMAIN SeriesArrays :
                        IF Overridden(SeriesArrays[i].Name)
                        THEN SeriesArrays[i].type
                                = last.types[SeriesArrays[i].Name]
                        ELSE Ret(SeriesArrays[i].type) = Inferred(Emitted[i])

\* C8 witness: the scalar m holds a string and has an override, and the file
\* is written; the position field, with no entry, is typed by inference.
C8_Witness ==
    /\ Wrote
    /\ last.types = [x \in {"m"} |-> "Float32"]
    /\ HasKey(last.scalars, "m")
    /\ Item(last.scalars, "m") = S_bad
    /\ doc.Points[1].type \in {"UInt32", "UInt64"}

\* C10: in every grid file written, NumberOfPoints is the length of the first
\* component of the position series; Points holds one DataArray, the position
\* field, with NumberOfComponents its number of components; PointData holds
\* one DataArray per vector series other than the position field, in the
\* caller's order, then one per scalar series, in the caller's order.
C10_GridStructure ==
    Wrote =>
        LET pos == Item(last.vectors, last.pname)
            nv == Len(OtherVectors)
        IN  /\ doc.NumberOfPoints = Decimal(Len(pos[1]))
            /\ Len(doc.Points) = 1
            /\ doc.Points[1].Name = last.pname
            /\ IsVectorArray(doc.Points[1])
            /\ doc.Points[1].NumberOfComponents = Decimal(Len(pos))
            /\ Len(doc.PointData) = nv + Len(last.scalars)
            /\ \A i \in 1..nv :
                  /\ doc.PointData[i].Name = OtherVectors[i].name
                  /\ IsVectorArray(doc.PointData[i])
                  /\ doc.PointData[i].NumberOfComponents
                        = Decimal(Len(OtherVectors[i].data))
            /\ \A j \in DOMAIN last.scalars :
                  /\ doc.PointData[nv + j].Name = last.scalars[j].name
                  /\ ~IsVectorArray(doc.PointData[nv + j])
            /\ \A i \in DOMAIN doc.PointData :
                  IsVectorArray(doc.PointData[i])
                      => doc.PointData[i].Name # last.pname

\* C10 witness: a file written from three vector series, the position field
\* second among them, and two scalar series, one named like the position
\* field.
C10_Witness ==
    /\ Wrote
    /\ Keys(last.vectors) = <<"w", "positions", "v">>
    /\ last.pname = "positions"
    /\ Keys(last.scalars) = <<"positions", "m">>
    /\ Len(doc.PointData) = 4

============================================================================
